---- MODULE Spec2Model ----
(***************************************************************************)
(* Model of the GraphQL-over-HTTP client of kodesmil/gqlgenc               *)
(* (client/client.go): the variable sanitizer removeNils, the request      *)
(* builder Client.newRequest, Client.Post and the response interpreter     *)
(* parseResponse / unmarshal.                                              *)
(***************************************************************************)
EXTENDS Integers, Sequences, FiniteSets, TLC

VARIABLES
    client,      \* the Client struct: BaseURL, HTTPRequestOptions
    query,       \* query[i]: the query argument of call i
    vars,        \* vars[i]: the caller's variables map of call i
    opts,        \* opts[i]: the per-call httpRequestOptions of call i
    target,      \* target[i]: the object respData of call i points to
    server,      \* server[i]: what the transport and the server do to call i
    pc,          \* pc[i]: where call i stands in Post
    req,         \* req[i]: the *http.Request of call i
    log,         \* log[i]: what call i has done to its request, in order
    resp,        \* resp[i]: the *http.Response of call i and its Body
    body,        \* body[i]: the bytes ioutil.ReadAll returned
    ret,         \* ret[i]: the error Post returned
    wire,        \* wire[i]: the requests of call i the transport was handed
    entry,       \* the client, the variables maps and the targets as they were at the entry of Post
    sanIn,       \* the map handed to removeNils
    sanOut,      \* removeNils(sanIn)
    sanTwice,    \* removeNils(removeNils(sanIn))
    sanPc        \* position of the sanitizer run

callVars == <<query, vars, opts, target, server, pc, req, log, resp, body, ret, wire>>
sanVars == <<sanIn, sanOut, sanTwice, sanPc>>
allVars == <<client, callVars, sanVars, entry>>

(***************************************************************************)
(* Bounds of the model.                                                    *)
(***************************************************************************)
MaxDepth == 2     \* nesting depth of the maps handed to removeNils
MaxOpts == 2      \* length of a list of request options
MaxErrs == 2      \* entries of a response's errors list

(***************************************************************************)
(* Go values held in a map[string]interface{}.                             *)
(*   nil     the nil interface value                                       *)
(*   scalar  a number or string                                            *)
(*   nilptr  a non-nil interface holding a typed nil pointer              *)
(*   chan    a value json.Marshal rejects                                  *)
(*   map     a map[string]interface{}; m is the map                        *)
(***************************************************************************)
Keys == {"a", "b"}
Nil == [k |-> "nil"]
Scalar(s) == [k |-> "scalar", v |-> s]
NilPtr == [k |-> "nilptr"]
Chan == [k |-> "chan"]
MapVal(f) == [k |-> "map", m |-> f]
EmptyMap == [key \in {} |-> Nil]

\* value.(map[string]interface{}) : the type assertion of line 45
IsMap(value) == value.k = "map"

RECURSIVE removeNils(_)
removeNils(initialMap) ==
    LET kept == {key \in DOMAIN initialMap :
                    IsMap(initialMap[key]) \/ initialMap[key] # Nil}
    IN [key \in kept |->
            IF IsMap(initialMap[key])
            THEN MapVal(removeNils(initialMap[key].m))
            ELSE initialMap[key]]

\* removeNils that deletes the nil entries of initialMap in place
removeNilsInPlace(initialMap) == removeNils(initialMap)

\* The caller's map after removeNils(initialMap) returned: removeNils ranges
\* over initialMap and writes only the fresh map withoutNils.
removeNilsInput(initialMap) == initialMap

SanLeaves == {Nil, Scalar("1"), NilPtr}

RECURSIVE MapsOfDepth(_)
\* The maps over Keys nested at most d deep.
MapsOfDepth(d) ==
    IF d = 0 THEN {}
    ELSE LET sub == SanLeaves \cup {MapVal(f) : f \in MapsOfDepth(d - 1)}
         IN UNION {[S -> sub] : S \in SUBSET Keys}

(***************************************************************************)
(* Response bodies.  A body is plain text, a JSON array, the JSON literal  *)
(* null, or a JSON object whose "data" and "errors" members are given as   *)
(* the raw bytes json.RawMessage keeps of them, here a sequence of tokens: *)
(* <<>> for a missing member, <<"null">>, <<"[", m1, ..., "]">> for a list *)
(* of errors with messages m1.., <<"{", "x", v, "}">> for an object.       *)
(***************************************************************************)
StatusOKMin == 200
StatusOKMax == 299

Messages == {"bad field", "server exploded"}
ErrorLists == UNION {[1..n -> Messages] : n \in 0..MaxErrs}

\* the raw bytes of an "errors" member holding the list l
ListRaw(l) == <<"[">> \o l \o <<"]">>
RawNull == <<"null">>
RawString == <<"\"oops\"">>
ErrorsRaws == {<<>>, RawNull, RawString} \cup {ListRaw(l) : l \in ErrorLists}

\* the raw bytes of a "data" member {"x": v}
DataRaw(v) == <<"{", "x", v, "}">>
DataRawXY(v, w) == <<"{", "x", v, "y", w, "}">>
IntTokens == {"1", "2"}
DataRaws ==
    {<<>>, RawNull, <<"[", "]">>, DataRaw("\"s\"")}
        \cup {DataRaw(v) : v \in IntTokens}
        \cup {DataRawXY(v, "\"s\"") : v \in IntTokens}

TextBody == [kind |-> "text", data |-> <<>>, errors |-> <<>>]
ArrayBody == [kind |-> "array", data |-> <<>>, errors |-> <<>>]
NullBody == [kind |-> "null", data |-> <<>>, errors |-> <<>>]
ObjectBody(d, e) == [kind |-> "object", data |-> d, errors |-> e]
Bodies ==
    {TextBody, ArrayBody, NullBody}
        \cup {ObjectBody(d, e) : d \in DataRaws, e \in ErrorsRaws}

StatusCodes == {199, 200, 299, 300, 500, 502}

\* the target shape of the model: struct { X int; Y int }
ZeroTarget == [x |-> "0", y |-> "0"]
PriorTarget == [x |-> "9", y |-> "9"]

(***************************************************************************)
(* Errors.  noErr is the nil error; Errorf(msg) a plain wrapped error;     *)
(* the *GqlErrorList unmarshal returns; the *ErrorResponse.                *)
(***************************************************************************)
NoHTTPError == [set |-> FALSE, Code |-> 0, Message |-> <<>>]
HTTPError(code, message) == [set |-> TRUE, Code |-> code, Message |-> message]
NoGqlErrors == [set |-> FALSE, list |-> <<>>]
GqlErrorsPtr(l) == [set |-> TRUE, list |-> l]

noErr == [kind |-> "nil", msg |-> "", NetworkError |-> NoHTTPError,
          GqlErrors |-> NoGqlErrors]
Errorf(msg) == [kind |-> "error", msg |-> msg, NetworkError |-> NoHTTPError,
                GqlErrors |-> NoGqlErrors]
GqlErrorList(l) == [kind |-> "GqlErrorList", msg |-> "",
                    NetworkError |-> NoHTTPError, GqlErrors |-> GqlErrorsPtr(l)]
ErrorResponse(ne, ge) == [kind |-> "ErrorResponse", msg |-> "",
                          NetworkError |-> ne, GqlErrors |-> ge]

\* ErrorResponse.HasErrors
HasErrors(er) == er.NetworkError.set \/ er.GqlErrors.set

\* json.Unmarshal(data, &resp) into response{Data, Errors json.RawMessage}:
\* a RawMessage member keeps the member's bytes, those of a JSON null too.
DecodeEnvelope(data) ==
    CASE data.kind = "text" -> [ok |-> FALSE, Data |-> <<>>, Errors |-> <<>>]
      [] data.kind = "array" -> [ok |-> FALSE, Data |-> <<>>, Errors |-> <<>>]
      [] data.kind = "null" -> [ok |-> TRUE, Data |-> <<>>, Errors |-> <<>>]
      [] OTHER -> [ok |-> TRUE, Data |-> data.data, Errors |-> data.errors]

\* json.Unmarshal(data, errors) into GqlErrorList{Errors gqlerror.List}:
\* null decodes to the nil list, an array to its entries, anything else fails.
DecodeErrorList(raw) ==
    IF raw = RawNull THEN [ok |-> TRUE, list |-> <<>>]
    ELSE IF Len(raw) >= 2 /\ raw[1] = "[" /\ raw[Len(raw)] = "]"
         THEN [ok |-> TRUE, list |-> SubSeq(raw, 2, Len(raw) - 1)]
         ELSE [ok |-> FALSE, list |-> <<>>]

\* graphqljson.UnmarshalData(resp.Data, res): decodes the data member into
\* the target; ok tells whether it succeeded, res is the target afterwards.
UnmarshalData(raw, res) ==
    IF raw = RawNull THEN [ok |-> TRUE, res |-> res]
    ELSE IF Len(raw) = 4 /\ raw[1] = "{" /\ raw[3] \in IntTokens
         THEN [ok |-> TRUE, res |-> [res EXCEPT !.x = raw[3]]]
    ELSE IF Len(raw) = 6 /\ raw[1] = "{" /\ raw[3] \in IntTokens
         THEN [ok |-> FALSE, res |-> [res EXCEPT !.x = raw[3]]]
         ELSE [ok |-> FALSE, res |-> res]

\* the test of line 183: resp.Errors != nil && len(resp.Errors) > 0
ErrorsPresent(raw) == Len(raw) > 0

\* unmarshal that decodes data also when errors are present
unmarshalAlsoData(data, res) ==
    LET r == DecodeEnvelope(data)
        e == DecodeErrorList(r.Errors)
        d == UnmarshalData(r.Data, res)
    IN IF ~r.ok THEN [err |-> Errorf("failed to decode data"), res |-> res]
       ELSE IF ErrorsPresent(r.Errors)
            THEN IF ~e.ok
                 THEN [err |-> Errorf("faild to parse graphql errors"), res |-> res]
                 ELSE [err |-> GqlErrorList(e.list), res |-> d.res]
       ELSE IF ~d.ok
            THEN [err |-> Errorf("failed to decode data into response"), res |-> d.res]
            ELSE [err |-> noErr, res |-> d.res]

\* unmarshal(data, res): err is the error returned, res the target afterwards
unmarshal(data, res) ==
    LET r == DecodeEnvelope(data)
        e == DecodeErrorList(r.Errors)
        d == UnmarshalData(r.Data, res)
    IN IF ~r.ok THEN [err |-> Errorf("failed to decode data"), res |-> res]
       ELSE IF ErrorsPresent(r.Errors)
            THEN IF ~e.ok
                 THEN [err |-> Errorf("faild to parse graphql errors"), res |-> res]
                 ELSE [err |-> GqlErrorList(e.list), res |-> res]
       ELSE IF ~d.ok
            THEN [err |-> Errorf("failed to decode data into response"), res |-> d.res]
            ELSE [err |-> noErr, res |-> d.res]

isKOCode(httpCode) == httpCode < StatusOKMin \/ StatusOKMax < httpCode

\* fmt.Sprintf("Response body %s", string(body))
ResponseBodyMessage(b) == <<"Response body ", b>>

\* parseResponse that returns every plain decode error, whatever the status
parseResponseStrict(b, httpCode, result) ==
    LET ne == IF isKOCode(httpCode)
              THEN HTTPError(httpCode, ResponseBodyMessage(b))
              ELSE NoHTTPError
        u == unmarshal(b, result)
        ge == IF u.err.kind = "GqlErrorList" THEN u.err.GqlErrors ELSE NoGqlErrors
        errResponse == ErrorResponse(ne, ge)
    IN IF u.err.kind = "error"
       THEN [err |-> u.err, res |-> u.res]
       ELSE IF HasErrors(errResponse)
            THEN [err |-> errResponse, res |-> u.res]
            ELSE [err |-> noErr, res |-> u.res]

\* parseResponse that returns on a KO code without looking at the body
parseResponseEarly(b, httpCode, result) ==
    LET ne == HTTPError(httpCode, ResponseBodyMessage(b))
        u == unmarshal(b, result)
        ge == IF u.err.kind = "GqlErrorList" THEN u.err.GqlErrors ELSE NoGqlErrors
        errResponse == ErrorResponse(NoHTTPError, ge)
    IN IF isKOCode(httpCode)
       THEN [err |-> ErrorResponse(ne, NoGqlErrors), res |-> result]
       ELSE IF u.err.kind = "error"
            THEN [err |-> u.err, res |-> u.res]
            ELSE IF HasErrors(errResponse)
                 THEN [err |-> errResponse, res |-> u.res]
                 ELSE [err |-> noErr, res |-> u.res]

\* parseResponse(body, httpCode, result): err is the error returned, res the
\* target afterwards
parseResponse(b, httpCode, result) ==
    LET ne == IF isKOCode(httpCode)
              THEN HTTPError(httpCode, ResponseBodyMessage(b))
              ELSE NoHTTPError
        u == unmarshal(b, result)
        ge == IF u.err.kind = "GqlErrorList" THEN u.err.GqlErrors ELSE NoGqlErrors
        errResponse == ErrorResponse(ne, ge)
    IN IF u.err.kind = "error" /\ ~isKOCode(httpCode)
       THEN [err |-> u.err, res |-> u.res]
       ELSE IF HasErrors(errResponse)
            THEN [err |-> errResponse, res |-> u.res]
            ELSE [err |-> noErr, res |-> u.res]


(***************************************************************************)
(* Requests.                                                               *)
(***************************************************************************)
JSONMediaType == "application/json; charset=utf-8"
HeaderNames == {"Content-Type", "Accept", "Authorization"}
NoHeaders == [h \in HeaderNames |-> ""]

\* An HTTPRequestOption of the model sets one header of the request.
SetHeader(h, v) == [h |-> h, v |-> v]
Options == {SetHeader("Content-Type", "text/xml"), SetHeader("Accept", "text/xml"),
            SetHeader("Authorization", "token")}
OptionLists == UNION {[1..n -> Options] : n \in 0..MaxOpts}

\* httpRequestOption(req)
ApplyOption(o, r) == [r EXCEPT !.Header[o.h] = o.v]

GoodURL == "http://host/graphql"
BadURL == ":bad"
\* url.Parse inside http.NewRequestWithContext
URLParses(u) == u # BadURL

RECURSIVE Encodable(_)
\* whether json.Marshal accepts the value
Encodable(value) ==
    CASE value.k = "chan" -> FALSE
      [] value.k = "map" -> \A key \in DOMAIN value.m : Encodable(value.m[key])
      [] OTHER -> TRUE

RECURSIVE Encode(_)
\* the JSON json.Marshal writes for the value
Encode(value) ==
    CASE value.k = "map" ->
            [j |-> "object", m |-> [key \in DOMAIN value.m |-> Encode(value.m[key])]]
      [] value.k = "scalar" -> [j |-> "number", v |-> value.v]
      [] OTHER -> [j |-> "null"]

\* json.Marshal(r) of Request{Query, Variables omitempty, OperationName omitempty}
MarshalRequest(q, variables) ==
    IF ~Encodable(MapVal(variables))
    THEN [ok |-> FALSE, body |-> <<>>]
    ELSE [ok |-> TRUE,
          body |-> IF DOMAIN variables = {}
                   THEN <<"query", q>>
                   ELSE <<"query", q, "variables", Encode(MapVal(variables))>>]

NoRequest == [built |-> FALSE, Method |-> "", URL |-> "", Body |-> <<>>,
              Variables |-> EmptyMap, Header |-> NoHeaders]

\* lines 128-129 had they kept a header a request option already set
SetJSONHeadersIfUnset(r) ==
    [r EXCEPT !.Header = [h \in HeaderNames |->
        IF h \in {"Content-Type", "Accept"} /\ r.Header[h] = ""
        THEN JSONMediaType ELSE r.Header[h]]]

\* req.Header.Set("Content-Type", ..); req.Header.Set("Accept", ..)
SetJSONHeaders(r) ==
    [r EXCEPT !.Header["Content-Type"] = JSONMediaType,
              !.Header["Accept"] = JSONMediaType]

NoResponse == [held |-> FALSE, Body |-> "none", StatusCode |-> 0]

\* a return that forgets the deferred Close
LeaveBody(r) == r

\* defer resp.Body.Close(), run when Post returns
CloseBody(r) == [r EXCEPT !.Body = "closed"]

Event(ev, n) == [ev |-> ev, n |-> n]
\* the options of one kind call i has applied so far
Applied(l, ev) == Len(SelectSeq(l, LAMBDA e : e.ev = ev))

(***************************************************************************)
(* What the transport does to a call: Do fails, or it answers with a       *)
(* status and a body whose read fails or succeeds.                         *)
(***************************************************************************)
DoFails == [doErr |-> TRUE, readErr |-> FALSE, StatusCode |-> 0, body |-> TextBody]
ReadFails(code) == [doErr |-> FALSE, readErr |-> TRUE, StatusCode |-> code,
                    body |-> TextBody]
Responds(code, b) == [doErr |-> FALSE, readErr |-> FALSE, StatusCode |-> code,
                      body |-> b]

(***************************************************************************)
(* Post, step by step.                                                     *)
(***************************************************************************)
Calls == DOMAIN pc

\* newRequest, lines 59-72: sanitize, encode, build the request
NewRequest(i) ==
    /\ pc[i] = "start"
    /\ LET sanitized == removeNils(vars[i])
           enc == MarshalRequest(query[i], sanitized)
       IN /\ vars' = [vars EXCEPT ![i] = removeNilsInput(vars[i])]
          /\ IF ~enc.ok
             THEN /\ ret' = [ret EXCEPT ![i] = Errorf("don't create request: encode")]
                  /\ pc' = [pc EXCEPT ![i] = "done"]
                  /\ req' = req
             ELSE IF ~URLParses(client.BaseURL)
             THEN /\ ret' = [ret EXCEPT ![i] =
                        Errorf("don't create request: create request struct failed")]
                  /\ pc' = [pc EXCEPT ![i] = "done"]
                  /\ req' = req
             ELSE /\ req' = [req EXCEPT ![i] =
                        [built |-> TRUE, Method |-> "POST", URL |-> client.BaseURL,
                         Body |-> enc.body, Variables |-> sanitized,
                         Header |-> NoHeaders]]
                  /\ pc' = [pc EXCEPT ![i] = "ctorOpts"]
                  /\ ret' = ret
    /\ UNCHANGED <<client, query, opts, target, server, log, resp, body, wire, sanVars, entry>>

\* newRequest, lines 74-76: one turn of the loop over c.HTTPRequestOptions
ApplyCtorOption(i) ==
    /\ pc[i] = "ctorOpts"
    /\ LET n == Applied(log[i], "ctor")
       IN IF n < Len(client.HTTPRequestOptions)
          THEN /\ req' = [req EXCEPT ![i] =
                            ApplyOption(client.HTTPRequestOptions[n + 1], req[i])]
               /\ log' = [log EXCEPT ![i] = Append(log[i], Event("ctor", n + 1))]
               /\ pc' = pc
          ELSE /\ pc' = [pc EXCEPT ![i] = "callOpts"]
               /\ UNCHANGED <<req, log>>
    /\ UNCHANGED <<client, query, vars, opts, target, server, resp, body, ret, wire, sanVars, entry>>

\* newRequest, lines 77-81: one turn of the loop over httpRequestOptions
ApplyCallOption(i) ==
    /\ pc[i] = "callOpts"
    /\ LET n == Applied(log[i], "call")
       IN IF n < Len(opts[i])
          THEN /\ req' = [req EXCEPT ![i] = ApplyOption(opts[i][n + 1], req[i])]
               /\ log' = [log EXCEPT ![i] = Append(log[i], Event("call", n + 1))]
               /\ pc' = pc
          ELSE /\ pc' = [pc EXCEPT ![i] = "headers"]
               /\ UNCHANGED <<req, log>>
    /\ UNCHANGED <<client, query, vars, opts, target, server, resp, body, ret, wire, sanVars, entry>>

\* Post, lines 128-129
SetHeaders(i) ==
    /\ pc[i] = "headers"
    /\ req' = [req EXCEPT ![i] = SetJSONHeaders(req[i])]
    /\ log' = [log EXCEPT ![i] = log[i] \o <<Event("Content-Type", 0), Event("Accept", 0)>>]
    /\ pc' = [pc EXCEPT ![i] = "do"]
    /\ UNCHANGED <<client, query, vars, opts, target, server, resp, body, ret, wire, sanVars, entry>>

\* Post, lines 131-135: c.Client.Do(req)
Do(i) ==
    /\ pc[i] = "do"
    /\ wire' = [wire EXCEPT ![i] = Append(wire[i], req[i])]
    /\ log' = [log EXCEPT ![i] = Append(log[i], Event("dispatch", 0))]
    /\ IF server[i].doErr
       THEN /\ ret' = [ret EXCEPT ![i] = Errorf("request failed")]
            /\ pc' = [pc EXCEPT ![i] = "done"]
            /\ resp' = resp
       ELSE /\ resp' = [resp EXCEPT ![i] =
                    [held |-> TRUE, Body |-> "open", StatusCode |-> server[i].StatusCode]]
            /\ pc' = [pc EXCEPT ![i] = "read"]
            /\ ret' = ret
    /\ UNCHANGED <<client, query, vars, opts, target, server, req, body, sanVars, entry>>

\* Post, lines 137-140: ioutil.ReadAll(resp.Body)
ReadAll(i) ==
    /\ pc[i] = "read"
    /\ IF server[i].readErr
       THEN /\ ret' = [ret EXCEPT ![i] = Errorf("failed to read response body")]
            /\ resp' = [resp EXCEPT ![i] = CloseBody(resp[i])]
            /\ pc' = [pc EXCEPT ![i] = "done"]
            /\ body' = body
       ELSE /\ body' = [body EXCEPT ![i] = server[i].body]
            /\ pc' = [pc EXCEPT ![i] = "parse"]
            /\ UNCHANGED <<ret, resp>>
    /\ UNCHANGED <<client, query, vars, opts, target, server, req, log, wire, sanVars, entry>>

\* Post, line 142: return parseResponse(body, resp.StatusCode, respData)
Parse(i) ==
    /\ pc[i] = "parse"
    /\ LET p == parseResponse(body[i], resp[i].StatusCode, target[i])
       IN /\ ret' = [ret EXCEPT ![i] = p.err]
          /\ target' = [target EXCEPT ![i] = p.res]
    /\ resp' = [resp EXCEPT ![i] = CloseBody(resp[i])]
    /\ pc' = [pc EXCEPT ![i] = "done"]
    /\ UNCHANGED <<client, query, vars, opts, server, req, log, body, wire, sanVars, entry>>

Next ==
    \/ \E i \in Calls : NewRequest(i)
    \/ \E i \in Calls : ApplyCtorOption(i)
    \/ \E i \in Calls : ApplyCallOption(i)
    \/ \E i \in Calls : SetHeaders(i)
    \/ \E i \in Calls : Do(i)
    \/ \E i \in Calls : ReadAll(i)
    \/ \E i \in Calls : Parse(i)

\* The state at the entry of Post of every call in ids: the client as
\* NewClient built it, each call's arguments, and nothing done yet.
InitCalls(ids) ==
    /\ query = [i \in ids |-> "query"]
    /\ pc = [i \in ids |-> "start"]
    /\ req = [i \in ids |-> NoRequest]
    /\ log = [i \in ids |-> <<>>]
    /\ wire = [i \in ids |-> <<>>]
    /\ resp = [i \in ids |-> NoResponse]
    /\ body = [i \in ids |-> TextBody]
    /\ ret = [i \in ids |-> noErr]

SanIdle ==
    /\ sanIn = EmptyMap
    /\ sanOut = EmptyMap
    /\ sanTwice = EmptyMap
    /\ sanPc = "idle"

AtEntry == entry = [client |-> client, vars |-> vars, target |-> target, sanIn |-> sanIn]

\* NewClient, lines 34-40
NewClient(baseURL, options) == [BaseURL |-> baseURL, HTTPRequestOptions |-> options]

PlainVars == [key \in {"a"} |-> Scalar("1")]
NilVars == [key \in {"a", "b"} |->
               IF key = "a" THEN Nil ELSE MapVal([kk \in {"a"} |-> Nil])]
ChanVars == [key \in {"a"} |-> MapVal([kk \in {"b"} |-> Chan])]

AllServers ==
    {DoFails} \cup {ReadFails(c) : c \in StatusCodes}
        \cup {Responds(c, b) : c \in StatusCodes, b \in Bodies}

\* One call; every response the model knows.
Init ==
    /\ client \in {NewClient(u, <<SetHeader("Authorization", "token")>>) :
                      u \in {GoodURL, BadURL}}
    /\ InitCalls({1})
    /\ vars \in [{1} -> {NilVars, ChanVars}]
    /\ opts \in [{1} -> {<<SetHeader("Accept", "text/xml")>>}]
    /\ target \in [{1} -> {ZeroTarget, PriorTarget}]
    /\ server \in [{1} -> AllServers]
    /\ SanIdle
    /\ AtEntry

Spec == Init /\ [][Next]_allVars


FewServers ==
    {DoFails, ReadFails(200), Responds(200, ObjectBody(DataRaw("1"), <<>>)),
     Responds(200, TextBody), Responds(500, TextBody)}

\* One call; every list of request options, at construction and per call.
InitReq ==
    /\ client \in {NewClient(u, o) : u \in {GoodURL, BadURL}, o \in OptionLists}
    /\ InitCalls({1})
    /\ vars \in [{1} -> {NilVars, ChanVars}]
    /\ opts \in [{1} -> OptionLists]
    /\ target \in [{1} -> {ZeroTarget}]
    /\ server \in [{1} -> FewServers]
    /\ SanIdle
    /\ AtEntry

SpecReq == InitReq /\ [][Next]_allVars

ConcServers ==
    {DoFails, ReadFails(200), Responds(200, ObjectBody(DataRaw("1"), <<>>)),
     Responds(200, ObjectBody(DataRaw("2"), ListRaw(<<"bad field">>))),
     Responds(500, ObjectBody(DataRaw("2"), <<>>))}

\* Two calls on one client, each with its own variables map and target.
InitConc ==
    /\ client \in {NewClient(u, <<SetHeader("Authorization", "token")>>) :
                      u \in {GoodURL, BadURL}}
    /\ InitCalls({1, 2})
    /\ vars \in {[i \in {1, 2} |-> IF i = 1 THEN NilVars ELSE v] :
                    v \in {PlainVars, ChanVars}}
    /\ opts \in {[i \in {1, 2} |-> IF i = 1 THEN <<SetHeader("Accept", "text/xml")>> ELSE o] :
                    o \in {<<>>, <<SetHeader("Content-Type", "text/xml")>>}}
    /\ target = [i \in {1, 2} |-> IF i = 1 THEN ZeroTarget ELSE PriorTarget]
    /\ server \in [{1, 2} -> ConcServers]
    /\ SanIdle
    /\ AtEntry

SpecConc == InitConc /\ [][Next]_allVars

(***************************************************************************)
(* removeNils on its own: applied to a map, then to its own result.        *)
(***************************************************************************)
SanCall ==
    /\ sanPc = "call"
    /\ sanOut' = removeNils(sanIn)
    /\ sanIn' = removeNilsInput(sanIn)
    /\ sanPc' = "again"
    /\ UNCHANGED <<client, callVars, sanTwice, entry>>

SanAgain ==
    /\ sanPc = "again"
    /\ sanTwice' = removeNils(sanOut)
    /\ sanPc' = "done"
    /\ UNCHANGED <<client, callVars, sanIn, sanOut, entry>>

NextSan == SanCall \/ SanAgain

InitSan ==
    /\ client = NewClient(GoodURL, <<>>)
    /\ InitCalls({})
    /\ vars = <<>>
    /\ opts = <<>>
    /\ target = <<>>
    /\ server = <<>>
    /\ sanIn \in MapsOfDepth(MaxDepth)
    /\ sanOut = EmptyMap
    /\ sanTwice = EmptyMap
    /\ sanPc = "call"
    /\ AtEntry

SpecSan == InitSan /\ [][NextSan]_allVars


(***************************************************************************)
(* Post as one function of its arguments and of what the transport does:   *)
(* the error returned and the target afterwards.                           *)
(***************************************************************************)
RECURSIVE ApplyOptions(_, _)
ApplyOptions(os, r) ==
    IF os = <<>> THEN r ELSE ApplyOptions(Tail(os), ApplyOption(Head(os), r))

\* the request Post hands to the transport
SentRequest(c, q, v, o) ==
    SetJSONHeaders(ApplyOptions(c.HTTPRequestOptions \o o,
        [built |-> TRUE, Method |-> "POST", URL |-> c.BaseURL,
         Body |-> MarshalRequest(q, removeNils(v)).body,
         Variables |-> removeNils(v), Header |-> NoHeaders]))

PostAlone(c, q, v, o, t, srv) ==
    IF ~MarshalRequest(q, removeNils(v)).ok
    THEN [err |-> Errorf("don't create request: encode"), res |-> t]
    ELSE IF ~URLParses(c.BaseURL)
    THEN [err |-> Errorf("don't create request: create request struct failed"), res |-> t]
    ELSE IF srv.doErr THEN [err |-> Errorf("request failed"), res |-> t]
    ELSE IF srv.readErr THEN [err |-> Errorf("failed to read response body"), res |-> t]
    ELSE parseResponse(srv.body, srv.StatusCode, t)

(***************************************************************************)
(* Vocabulary of the properties.                                           *)
(***************************************************************************)
\* call i returned from parseResponse
Parsed(i) == pc[i] = "done" /\ resp[i].held /\ ~server[i].readErr
Status(i) == server[i].StatusCode
StatusOK(i) == Status(i) >= 200 /\ Status(i) <= 299
Sent(i) == server[i].body
EnvelopeDecodes(b) == b.kind \in {"object", "null"}
\* the errors member is missing, null or the empty list
NoErrorsMember(b) == b.errors \in {<<>>, RawNull, ListRaw(<<>>)}
\* the errors member is the non-empty list l
ErrorsAre(b, l) == Len(l) > 0 /\ b.errors = ListRaw(l)
ErrorsDecode(b) == \E l \in ErrorLists : ErrorsAre(b, l)
DataDecodes(b, t) == UnmarshalData(b.data, t).ok
NetworkErrorOf(i) == HTTPError(Status(i), <<"Response body ", Sent(i)>>)

\* C1: a response with a 2xx status, a decodable envelope, an errors member
\* that is missing, null or the empty list, and data that decodes into the
\* target makes Post return no error with the target populated from data.
C1_NoErrorsIsSuccess ==
    \A i \in Calls :
        (/\ Parsed(i) /\ StatusOK(i) /\ EnvelopeDecodes(Sent(i))
         /\ NoErrorsMember(Sent(i))
         /\ DataDecodes(Sent(i), entry.target[i]))
        => /\ ret[i] = noErr
           /\ target[i] = UnmarshalData(Sent(i).data, entry.target[i]).res

C1_Witness ==
    \E i \in Calls :
        /\ Parsed(i) /\ Status(i) = 200
        /\ Sent(i) = ObjectBody(DataRaw("1"), RawNull)
        /\ ret[i].kind = "ErrorResponse"
        /\ ret[i].GqlErrors = GqlErrorsPtr(<<>>)

\* C2: a well-formed envelope with a non-empty decodable errors list yields
\* an ErrorResponse whose GqlErrors is that list, in order; its NetworkError
\* is set, with the status as code, exactly when the status is outside
\* [200,299].
C2_BothErrorsRecorded ==
    \A i \in Calls : \A l \in ErrorLists :
        (Parsed(i) /\ EnvelopeDecodes(Sent(i)) /\ ErrorsAre(Sent(i), l))
        => /\ ret[i].kind = "ErrorResponse"
           /\ ret[i].GqlErrors = GqlErrorsPtr(l)
           /\ StatusOK(i) => ~ret[i].NetworkError.set
           /\ ~StatusOK(i) => ret[i].NetworkError = NetworkErrorOf(i)

C2_Witness ==
    \E i \in Calls :
        /\ Parsed(i) /\ Status(i) = 500
        /\ Sent(i).errors = ListRaw(<<"server exploded", "bad field">>)
        /\ ret[i].NetworkError.set /\ ret[i].NetworkError.Code = 500
        /\ ret[i].GqlErrors = GqlErrorsPtr(<<"server exploded", "bad field">>)

\* the envelope fails to decode (step 2), or the errors member is missing and
\* data fails to decode into the target (step 4)
Step2Or4Fails(i) ==
    \/ ~EnvelopeDecodes(Sent(i))
    \/ /\ EnvelopeDecodes(Sent(i)) /\ Sent(i).errors = <<>>
       /\ ~DataDecodes(Sent(i), entry.target[i])

\* C3: a failure to decode the envelope or to decode data into the target is
\* returned as a plain decode error if and only if the status is in
\* [200,299]; outside it the call returns an ErrorResponse whose NetworkError
\* has the status as code and a message embedding the body, GqlErrors nil.
C3_DecodeFailurePrecedence ==
    \A i \in Calls :
        (Parsed(i) /\ Step2Or4Fails(i))
        => /\ StatusOK(i) =>
                /\ ret[i].kind = "error"
                /\ ret[i].msg = IF EnvelopeDecodes(Sent(i))
                                THEN "failed to decode data into response"
                                ELSE "failed to decode data"
           /\ ~StatusOK(i) => ret[i] = ErrorResponse(NetworkErrorOf(i), NoGqlErrors)

C3_Witness ==
    \E i \in Calls :
        /\ Parsed(i) /\ Status(i) = 500 /\ Sent(i) = TextBody
        /\ ret[i].kind = "ErrorResponse"
        /\ ret[i].NetworkError.Message = <<"Response body ", TextBody>>

\* the errors member is present and non-empty and is no list of errors
ErrorsMalformed(b) == EnvelopeDecodes(b) /\ ~NoErrorsMember(b) /\ ~ErrorsDecode(b)

\* C4 as claimed: an errors member that is present, non-empty and does not
\* decode makes the call return a plain decode error, for every status.
C4_ErrorsDecodeFailureAlwaysHard ==
    \A i \in Calls :
        (Parsed(i) /\ ErrorsMalformed(Sent(i)))
        => ret[i] = Errorf("faild to parse graphql errors")

\* C4: an errors member that is present, non-empty and does not decode makes
\* the call return a plain decode error when the status is in [200,299]; for
\* a status outside it the failure is dropped, as those of steps 2 and 4 are,
\* and the call returns an ErrorResponse with the NetworkError alone.
C4_ErrorsDecodeFailure ==
    \A i \in Calls :
        (Parsed(i) /\ ErrorsMalformed(Sent(i)))
        => /\ StatusOK(i) => ret[i] = Errorf("faild to parse graphql errors")
           /\ ~StatusOK(i) => ret[i] = ErrorResponse(NetworkErrorOf(i), NoGqlErrors)

C4_Witness ==
    \E i \in Calls :
        /\ Parsed(i) /\ Status(i) = 500
        /\ Sent(i).errors = RawString
        /\ ret[i].kind = "ErrorResponse" /\ ~ret[i].GqlErrors.set

\* C5 as claimed: whenever the errors member is present and non-empty the
\* target is as it was before the call and the call returns an ErrorResponse
\* carrying the list of errors.
C5_ErrorsLeaveTargetAndReturnList ==
    \A i \in Calls :
        (Parsed(i) /\ EnvelopeDecodes(Sent(i)) /\ ~NoErrorsMember(Sent(i)))
        => /\ target[i] = entry.target[i]
           /\ ret[i].kind = "ErrorResponse"
           /\ ret[i].GqlErrors.set

\* C5: whenever the errors member is present and non-empty the target is as
\* it was before the call, for every status; when the member decodes as a
\* list of errors the call returns an ErrorResponse carrying that list.
C5_ErrorsLeaveTarget ==
    \A i \in Calls :
        (Parsed(i) /\ EnvelopeDecodes(Sent(i)) /\ ~NoErrorsMember(Sent(i)))
        => /\ target[i] = entry.target[i]
           /\ \A l \in ErrorLists :
                ErrorsAre(Sent(i), l)
                => ret[i].kind = "ErrorResponse" /\ ret[i].GqlErrors = GqlErrorsPtr(l)

C5_Witness ==
    \E i \in Calls :
        /\ Parsed(i)
        /\ Sent(i) = ObjectBody(DataRaw("1"), ListRaw(<<"bad field">>))
        /\ entry.target[i] = PriorTarget
        /\ target[i] = PriorTarget
        /\ ret[i].GqlErrors = GqlErrorsPtr(<<"bad field">>)


\* a value the wire carries as null: the nil interface value, and a typed
\* nil pointer, which json.Marshal writes as null as well
IsNull(value) == Encode(value) = [j |-> "null"]

RECURSIVE NoNullInMaps(_)
\* no key of the map, or of a map nested in it, holds a null value
NoNullInMaps(m) ==
    \A key \in DOMAIN m :
        /\ ~IsNull(m[key])
        /\ IsMap(m[key]) => NoNullInMaps(m[key].m)

RECURSIVE SanitizedOf(_, _)
\* out holds exactly the keys of in whose value is not null, a value that is
\* no map unchanged and a nested map replaced by its sanitized form
SanitizedOf(out, in) ==
    /\ DOMAIN out = {key \in DOMAIN in : ~IsNull(in[key])}
    /\ \A key \in DOMAIN out :
        IF IsMap(in[key])
        THEN IsMap(out[key]) /\ SanitizedOf(out[key].m, in[key].m)
        ELSE out[key] = in[key]

\* C6: the map removeNils returns holds no null value at any depth of nested
\* maps, holds every key whose value is not null (values that are no maps
\* unchanged, nested maps sanitized, empty maps kept), and removeNils applied
\* to its own result returns that result.
C6_RemoveNils ==
    /\ sanPc \in {"again", "done"} =>
        /\ NoNullInMaps(sanOut)
        /\ SanitizedOf(sanOut, entry.sanIn)
        /\ sanIn = entry.sanIn
    /\ sanPc = "done" => sanTwice = sanOut

\* C6, the case that fails: a typed nil pointer is kept, at the top and in a
\* nested map, while the nil interface value beside it is dropped.
C6_Witness ==
    /\ sanPc = "done"
    /\ entry.sanIn = [key \in {"a", "b"} |->
            IF key = "a" THEN NilPtr
            ELSE MapVal([kk \in {"a", "b"} |-> IF kk = "a" THEN Nil ELSE NilPtr])]
    /\ sanOut = [key \in {"a", "b"} |->
            IF key = "a" THEN NilPtr ELSE MapVal([kk \in {"b"} |-> NilPtr])]
    /\ Encode(MapVal(sanOut)).m["a"] = [j |-> "null"]
    /\ sanTwice = sanOut

\* the events of a call that reached dispatch, in order
ExpectedLog(c, o) ==
    [n \in 1..Len(c.HTTPRequestOptions) |-> Event("ctor", n)]
        \o [n \in 1..Len(o) |-> Event("call", n)]
        \o <<Event("Content-Type", 0), Event("Accept", 0), Event("dispatch", 0)>>

IsPrefix(p, q) == Len(p) <= Len(q) /\ p = SubSeq(q, 1, Len(p))
Dispatched(i) == Len(wire[i]) > 0
RequestFailures == {"don't create request: encode",
                    "don't create request: create request struct failed"}

\* C7: a call applies each construction-time option once in registration
\* order, then each per-call option once in argument order, then sets
\* Content-Type and Accept, then dispatches; the request the transport gets
\* carries the JSON media type in both headers and every other header as the
\* options left it; a call whose encoding or request construction failed
\* applied no option.
C7_RequestOrder ==
    \A i \in Calls :
        /\ IsPrefix(log[i], ExpectedLog(client, opts[i]))
        /\ Dispatched(i) =>
            /\ log[i] = ExpectedLog(client, opts[i])
            /\ wire[i][1].Header["Content-Type"] = JSONMediaType
            /\ wire[i][1].Header["Accept"] = JSONMediaType
            /\ wire[i][1].Header["Authorization"] =
                ApplyOptions(client.HTTPRequestOptions \o opts[i], NoRequest).Header["Authorization"]
        /\ (pc[i] = "done" /\ ret[i].msg \in RequestFailures) =>
            /\ log[i] = <<>>
            /\ ~Dispatched(i)

C7_Witness ==
    \E i \in Calls :
        /\ Dispatched(i)
        /\ client.HTTPRequestOptions =
            <<SetHeader("Content-Type", "text/xml"), SetHeader("Authorization", "token")>>
        /\ opts[i] = <<SetHeader("Accept", "text/xml"), SetHeader("Content-Type", "text/xml")>>
        /\ wire[i][1].Header["Content-Type"] = JSONMediaType
        /\ wire[i][1].Header["Authorization"] = "token"

\* C8: when the transport returned a response its body is closed by the time
\* Post has returned, whatever Post returns; when the dispatch failed Post
\* returns the transport error and holds no body; a call dispatches its
\* request at most once.
C8_BodyReleased ==
    \A i \in Calls :
        /\ Len(wire[i]) <= 1
        /\ (pc[i] = "done" /\ resp[i].held) => resp[i].Body = "closed"
        /\ (pc[i] = "done" /\ Dispatched(i) /\ server[i].doErr) =>
            /\ ret[i] = Errorf("request failed")
            /\ ~resp[i].held
            /\ resp[i].Body = "none"
        /\ (pc[i] = "done" /\ ~Dispatched(i)) => resp[i].Body = "none"

C8_Witness ==
    \E i \in Calls :
        /\ pc[i] = "done" /\ server[i].readErr
        /\ ret[i] = Errorf("failed to read response body")
        /\ resp[i].Body = "closed"

\* C9: under every interleaving of two calls on one client each call's
\* sanitized variables, request, response, body, returned error and target
\* are those the call yields alone, and neither the client nor a caller's
\* variables map is written.
C9_CallIsolation ==
    /\ client = entry.client
    /\ vars = entry.vars
    /\ \A i \in Calls :
        /\ req[i].built =>
            /\ req[i].Variables = removeNils(entry.vars[i])
            /\ req[i].Body = MarshalRequest(query[i], removeNils(entry.vars[i])).body
        /\ Dispatched(i) =>
            wire[i] = <<SentRequest(entry.client, query[i], entry.vars[i], opts[i])>>
        /\ resp[i].held => resp[i].StatusCode = server[i].StatusCode
        /\ pc[i] = "parse" => body[i] = server[i].body
        /\ pc[i] = "done" =>
            LET alone == PostAlone(entry.client, query[i], entry.vars[i], opts[i],
                                   entry.target[i], server[i])
            IN ret[i] = alone.err /\ target[i] = alone.res
        /\ pc[i] # "done" => target[i] = entry.target[i] /\ ret[i] = noErr

C9_Witness ==
    /\ Calls = {1, 2}
    /\ pc[1] = "done" /\ pc[2] = "done"
    /\ ret[1].kind = "ErrorResponse" /\ ret[1].GqlErrors.set
    /\ target[1] = ZeroTarget
    /\ ret[2] = noErr /\ target[2].x = "1"
    /\ req[1].Variables # req[2].Variables

\* C10: a status outside [200,299] always yields an ErrorResponse; with a
\* well-formed envelope, no errors member and data that decodes, that
\* ErrorResponse holds the NetworkError alone and the target has been
\* populated from data.
C10_KOStatusStillWritesTarget ==
    \A i \in Calls :
        (Parsed(i) /\ ~StatusOK(i))
        => /\ ret[i].kind = "ErrorResponse"
           /\ ret[i].NetworkError = NetworkErrorOf(i)
           /\ (/\ EnvelopeDecodes(Sent(i)) /\ Sent(i).errors = <<>>
               /\ DataDecodes(Sent(i), entry.target[i]))
              => /\ ret[i] = ErrorResponse(NetworkErrorOf(i), NoGqlErrors)
                 /\ target[i] = UnmarshalData(Sent(i).data, entry.target[i]).res

C10_Witness ==
    \E i \in Calls :
        /\ Parsed(i) /\ Status(i) = 500
        /\ Sent(i) = ObjectBody(DataRaw("1"), <<>>)
        /\ entry.target[i] = PriorTarget
        /\ target[i] = [x |-> "1", y |-> "9"]
        /\ ret[i].kind = "ErrorResponse" /\ ~ret[i].GqlErrors.set


====
